---------------------------- MODULE Spec2Model ----------------------------
(***************************************************************************)
(* A model of the pi sonification engine:                                  *)
(*   - MusicTheoryEngine (lib/musicTheory): digit -> scale degree ->       *)
(*     chord notes, with the scale resolved through the tonal library;     *)
(*   - AudioEngine (lib/audioEngine): initialize / playDigit / dispose,    *)
(*     the theme cell, the retrigger throttle and the gain compensation;   *)
(*   - PiGenerator (lib/piGenerator) and App (App.tsx): the digit buffer,  *)
(*     the playback timer, the keyboard and the displayed theme.           *)
(* Times are integer milliseconds (the code's seconds times 1000).         *)
(* Note names are strings; a pitched note is the template string           *)
(* `${name}${octave}` of the code.                                         *)
(***************************************************************************)
EXTENDS Integers, Sequences, FiniteSets, TLC

(***************************************************************************)
(* Bounds of the model.                                                    *)
(***************************************************************************)
\* digits handed to digitToScaleDegree / digitToChordNotes range over
\* -DigitSlack .. 9 + DigitSlack
DigitSlack == 1
\* the audio clock is explored up to MaxTime milliseconds
MaxTime == 125
\* at most MaxPending initialize() calls are suspended at `await start()`
MaxPending == 2
\* the App has at most MaxThens .then callbacks waiting for an initialize()
MaxThens == 1
\* calculatePolyphonicVolume is applied to bases of -MaxBase .. MaxBase dB
MaxBase == 40
\* the gain compensation and the App are followed up to MaxWait milliseconds
MaxWait == 1000

(***************************************************************************)
(* MusicTheoryEngine: tables.                                              *)
(***************************************************************************)
\* MODES[mode].intervals
MODES ==
  [ ionian     |-> <<0, 2, 4, 5, 7, 9, 11, 12>>,
    dorian     |-> <<0, 2, 3, 5, 7, 9, 10, 12>>,
    phrygian   |-> <<0, 1, 3, 5, 7, 8, 10, 12>>,
    lydian     |-> <<0, 2, 4, 6, 7, 9, 11, 12>>,
    mixolydian |-> <<0, 2, 4, 5, 7, 9, 10, 12>>,
    aeolian    |-> <<0, 2, 3, 5, 7, 8, 10, 12>>,
    locrian    |-> <<0, 1, 3, 5, 6, 8, 10, 12>>,
    harmonic   |-> <<0, 2, 3, 5, 7, 8, 11, 12>> ]

ModeType == DOMAIN MODES

\* the chromatic table of generateScaleManually (and validKeys of setKey)
chromatic == <<"C", "C#", "D", "D#", "E", "F", "F#", "G", "G#", "A", "A#", "B">>

validKeys == { chromatic[i] : i \in 1..12 }

\* chromatic.indexOf(name): 0-based, -1 when absent
IndexOf(name) ==
  IF \E i \in 1..12 : chromatic[i] = name
  THEN (CHOOSE i \in 1..12 : chromatic[i] = name) - 1
  ELSE -1

\* the values of currentChord that digitToChordNotes tells apart, and one
\* it does not recognise
ChordSettings ==
  { "none", "Single Notes Only", "triads", "Basic Triads",
    "seventh", "Seventh Chords", "extended", "Extended Chords", "power" }

\* `${n}` for the small numbers the model formats
NumStr(n) ==
  CASE n = 0 -> "0" [] n = 1 -> "1" [] n = 2 -> "2" [] n = 3 -> "3"
    [] n = 4 -> "4" [] n = 5 -> "5" [] n = 6 -> "6" [] n = 7 -> "7"
    [] n = 8 -> "8" [] n = 9 -> "9" [] OTHER -> "?"

\* `${note}${octave}`
Pitched(note, octave) == note \o NumStr(octave)

(***************************************************************************)
(* The tonal library, as far as getCurrentScaleNotes uses it:              *)
(* Scale.get(`${key} ${scaleName}`).notes and Note.transpose(n, '8P').     *)
(* tonal spells a scale by transposing the tonic by the intervals of the   *)
(* scale type: the i-th note takes the i-th letter after the tonic's and   *)
(* the accidentals that give it the interval's size in semitones.          *)
(***************************************************************************)
LetterNames == <<"C", "D", "E", "F", "G", "A", "B">>

\* semitones of the natural letters above C
LetterSemis == <<0, 2, 4, 5, 7, 9, 11>>

AccStr(acc) ==
  CASE acc = 0 -> "" [] acc = 1 -> "#" [] acc = 2 -> "##" [] acc = 3 -> "###"
    [] acc = -1 -> "b" [] acc = -2 -> "bb" [] acc = -3 -> "bbb" [] OTHER -> "?"

Accidentals == -3..3

NoteName(letter, acc) == LetterNames[letter + 1] \o AccStr(acc)

\* tonal's note(name): the letter (0..6) and accidentals of a pitch class
\* name, or the empty note
NoNote == [empty |-> TRUE]

\* the pitch class names tonal reads
TonalNames ==
  { [empty |-> FALSE, name |-> NoteName(l, a), letter |-> l, acc |-> a] :
      l \in 0..6, a \in Accidentals }

TonalNote(name) ==
  IF \E n \in TonalNames : n.name = name
  THEN LET n == CHOOSE n \in TonalNames : n.name = name
       IN  [empty |-> FALSE, letter |-> n.letter, acc |-> n.acc]
  ELSE NoNote

\* tonal's transpose(note, interval) on a pitch class: `steps` letters up
\* (interval number - 1), `semis` semitones up
TonalTranspose(name, steps, semis) ==
  LET n == TonalNote(name)
      l == (n.letter + steps) % 7
      natural == (LetterSemis[l + 1] - LetterSemis[n.letter + 1] + 12) % 12
  IN  NoteName(l, n.acc + (semis % 12) - natural)

\* tonal's scale dictionary: the semitone sizes of the seven intervals of a
\* scale type (1P 2M 3M 4P 5P 6M 7M for "major", ...); empty when the name
\* is not a scale type
TonalScaleType(scaleName) ==
  CASE scaleName = "major"          -> <<0, 2, 4, 5, 7, 9, 11>>
    [] scaleName = "dorian"         -> <<0, 2, 3, 5, 7, 9, 10>>
    [] scaleName = "phrygian"       -> <<0, 1, 3, 5, 7, 8, 10>>
    [] scaleName = "lydian"         -> <<0, 2, 4, 6, 7, 9, 11>>
    [] scaleName = "mixolydian"     -> <<0, 2, 4, 5, 7, 9, 10>>
    [] scaleName = "minor"          -> <<0, 2, 3, 5, 7, 8, 10>>
    [] scaleName = "locrian"        -> <<0, 1, 3, 5, 6, 8, 10>>
    [] scaleName = "harmonic minor" -> <<0, 2, 3, 5, 7, 8, 11>>
    [] OTHER                        -> <<>>

\* Scale.get(`${key} ${scaleName}`).notes
ScaleGetNotes(key, scaleName) ==
  LET st == TonalScaleType(scaleName)
  IN  IF TonalNote(key).empty \/ st = <<>>
      THEN <<>>
      ELSE [i \in 1..Len(st) |-> TonalTranspose(key, i - 1, st[i])]

\* Note.transpose(name, '8P')
TransposeOctave(name) == TonalTranspose(name, 7, 12)

(***************************************************************************)
(* MusicTheoryEngine: operations.                                          *)
(***************************************************************************)
\* number | null
Null == {}
Some(n) == {n}
ValueOf(opt) == CHOOSE n \in opt : TRUE

\* a variant of digitToScaleDegree whose lower bound is off by one
digitToScaleDegreeFromOne(digit) ==
  IF digit < 1 \/ digit > 9 THEN Null ELSE Some(digit - 2)

digitToScaleDegree(digit) ==
  IF digit < 2 \/ digit > 9 THEN Null ELSE Some(digit - 2)

modeToScaleName(mode) ==
  CASE mode = "ionian"     -> "major"
    [] mode = "dorian"     -> "dorian"
    [] mode = "phrygian"   -> "phrygian"
    [] mode = "lydian"     -> "lydian"
    [] mode = "mixolydian" -> "mixolydian"
    [] mode = "aeolian"    -> "minor"
    [] mode = "locrian"    -> "locrian"
    [] mode = "harmonic"   -> "harmonic minor"

generateScaleManually(key, intervals) ==
  LET rootIndex == IndexOf(key)
  IN  IF rootIndex = -1
      THEN <<"C", "D", "E", "F", "G", "A", "B", "C">>
      ELSE [i \in 1..Len(intervals) |->
              chromatic[((rootIndex + intervals[i]) % 12) + 1]]

getCurrentScaleNotes(key, mode) ==
  LET intervals == MODES[mode]
      notes == ScaleGetNotes(key, modeToScaleName(mode))
      extendedScale ==
        IF Len(notes) < 8 THEN Append(notes, TransposeOctave(notes[1]))
        ELSE notes
  IN  IF Len(notes) = 0
      THEN generateScaleManually(key, intervals)
      ELSE SubSeq(extendedScale, 1, 8)

\* scaleNotes[i] of a JavaScript array: undefined (falsy) outside it
Undefined == ""
At(scaleNotes, i) ==
  IF i + 1 \in DOMAIN scaleNotes THEN scaleNotes[i + 1] ELSE Undefined

\* a variant of buildTriadFromScale that stacks the fifth one step too low
buildTriadWithFourth(scaleDegree, scaleNotes, octave) ==
  LET rootIndex == scaleDegree
      scaleLength == 7
      root == At(scaleNotes, rootIndex)
      third == At(scaleNotes, (rootIndex + 2) % scaleLength)
      fifth == At(scaleNotes, (rootIndex + 3) % scaleLength)
  IN  << Pitched(root, octave),
         Pitched(third, octave),
         Pitched(fifth, octave + (IF rootIndex + 4 >= scaleLength THEN 1 ELSE 0)) >>

buildTriadFromScale(scaleDegree, scaleNotes, octave) ==
  LET rootIndex == scaleDegree
      scaleLength == 7
      root == At(scaleNotes, rootIndex)
      third == At(scaleNotes, (rootIndex + 2) % scaleLength)
      fifth == At(scaleNotes, (rootIndex + 4) % scaleLength)
  IN  << Pitched(root, octave),
         Pitched(third, octave),
         Pitched(fifth, octave + (IF rootIndex + 4 >= scaleLength THEN 1 ELSE 0)) >>

\* a variant of buildSeventhFromScale that leaves the seventh out
buildSeventhWithoutSeventh(scaleDegree, scaleNotes, octave) ==
  buildTriadFromScale(scaleDegree, scaleNotes, octave)

buildSeventhFromScale(scaleDegree, scaleNotes, octave) ==
  LET rootIndex == scaleDegree
      scaleLength == 7
      root == At(scaleNotes, rootIndex)
      third == At(scaleNotes, (rootIndex + 2) % scaleLength)
      fifth == At(scaleNotes, (rootIndex + 4) % scaleLength)
      seventh == At(scaleNotes, (rootIndex + 6) % scaleLength)
  IN  << Pitched(root, octave),
         Pitched(third, octave),
         Pitched(fifth, octave + (IF rootIndex + 4 >= scaleLength THEN 1 ELSE 0)),
         Pitched(seventh, octave + (IF rootIndex + 6 >= scaleLength THEN 1 ELSE 0)) >>

\* a variant of buildExtendedFromScale that places the seventh by the
\* fifth's octave test
buildExtendedSeventhByFifth(scaleDegree, scaleNotes, octave) ==
  LET rootIndex == scaleDegree
      scaleLength == 7
      root == At(scaleNotes, rootIndex)
      third == At(scaleNotes, (rootIndex + 2) % scaleLength)
      fifth == At(scaleNotes, (rootIndex + 4) % scaleLength)
      seventh == At(scaleNotes, (rootIndex + 6) % scaleLength)
      ninth == At(scaleNotes, (rootIndex + 1) % scaleLength)
  IN  << Pitched(root, octave),
         Pitched(third, octave),
         Pitched(fifth, octave + (IF rootIndex + 4 >= scaleLength THEN 1 ELSE 0)),
         Pitched(seventh, octave + (IF rootIndex + 4 >= scaleLength THEN 1 ELSE 0)),
         Pitched(ninth, octave + 1) >>

buildExtendedFromScale(scaleDegree, scaleNotes, octave) ==
  LET rootIndex == scaleDegree
      scaleLength == 7
      root == At(scaleNotes, rootIndex)
      third == At(scaleNotes, (rootIndex + 2) % scaleLength)
      fifth == At(scaleNotes, (rootIndex + 4) % scaleLength)
      seventh == At(scaleNotes, (rootIndex + 6) % scaleLength)
      ninth == At(scaleNotes, (rootIndex + 1) % scaleLength)
  IN  << Pitched(root, octave),
         Pitched(third, octave),
         Pitched(fifth, octave + (IF rootIndex + 4 >= scaleLength THEN 1 ELSE 0)),
         Pitched(seventh, octave + (IF rootIndex + 6 >= scaleLength THEN 1 ELSE 0)),
         Pitched(ninth, octave + 1) >>

\* a variant of digitToChordNotes that returns nothing for a chord setting
\* it does not recognise
digitToChordNotesStrict(key, mode, chord, digit, octave) ==
  LET scaleDegree == digitToScaleDegree(digit)
  IN  IF scaleDegree = Null THEN <<>>
      ELSE
        LET scaleNotes == getCurrentScaleNotes(key, mode)
            rootNote == At(scaleNotes, ValueOf(scaleDegree))
        IN  IF rootNote = Undefined THEN <<>>
            ELSE CASE chord \in {"none", "Single Notes Only"} ->
                        << Pitched(rootNote, octave) >>
                   [] chord \in {"triads", "Basic Triads"} ->
                        buildTriadFromScale(ValueOf(scaleDegree), scaleNotes, octave)
                   [] chord \in {"seventh", "Seventh Chords"} ->
                        buildSeventhFromScale(ValueOf(scaleDegree), scaleNotes, octave)
                   [] chord \in {"extended", "Extended Chords"} ->
                        buildExtendedFromScale(ValueOf(scaleDegree), scaleNotes, octave)
                   [] OTHER -> <<>>

digitToChordNotes(key, mode, chord, digit, octave) ==
  LET scaleDegree == digitToScaleDegree(digit)
  IN  IF scaleDegree = Null THEN <<>>
      ELSE
        LET scaleNotes == getCurrentScaleNotes(key, mode)
            rootNote == At(scaleNotes, ValueOf(scaleDegree))
        IN  IF rootNote = Undefined THEN <<>>
            ELSE CASE chord \in {"none", "Single Notes Only"} ->
                        << Pitched(rootNote, octave) >>
                   [] chord \in {"triads", "Basic Triads"} ->
                        buildTriadFromScale(ValueOf(scaleDegree), scaleNotes, octave)
                   [] chord \in {"seventh", "Seventh Chords"} ->
                        buildSeventhFromScale(ValueOf(scaleDegree), scaleNotes, octave)
                   [] chord \in {"extended", "Extended Chords"} ->
                        buildExtendedFromScale(ValueOf(scaleDegree), scaleNotes, octave)
                   [] OTHER ->
                        << Pitched(rootNote, octave) >>

(***************************************************************************)
(* State.                                                                  *)
(***************************************************************************)
VARIABLES
  currentKey,       \* MusicTheoryEngine.currentKey
  currentMode,      \* MusicTheoryEngine.currentMode
  currentChord,     \* MusicTheoryEngine.currentChord
  initialized,      \* AudioEngine.initialized
  lastTriggerTime,  \* AudioEngine.lastTriggerTime, in ms
  currentTheme,     \* AudioEngine.currentTheme
  synths,           \* the four synth fields: "undefined", "created", "disposed"
  pending,          \* initialize() calls suspended at `await start()`
  clock,            \* Tone's now(), in ms
  volume,           \* the volume automation of the two melody synths
  out,              \* what the last operation was given, returned and dispatched
  hist              \* history: the accepted playDigit calls so far

VARIABLES
  mounted,            \* the App component: "new", "mounted" or "unmounted"
  isPlaying,          \* App's isPlaying
  currentDigitIndex,  \* App's currentDigitIndex
  piDigits,           \* App's piDigits, one character per element
  position,           \* PiGenerator.position
  tempo,              \* App's tempo, in BPM
  appTheme,           \* App's currentTheme, the theme the UI shows
  thens               \* the .then callbacks of the suspended initialize() calls

appVars == <<mounted, isPlaying, currentDigitIndex, piDigits, position, tempo,
             appTheme, thens>>
theoryVars == <<currentKey, currentMode, currentChord>>
engineVars == <<initialized, lastTriggerTime, currentTheme, synths, pending>>
toneVars == <<clock, volume>>
vars == <<currentKey, currentMode, currentChord, initialized, lastTriggerTime,
          currentTheme, synths, pending, clock, volume, out, hist,
          mounted, isPlaying, currentDigitIndex, piDigits, position, tempo,
          appTheme, thens>>

MelodyVoices == {"dark", "light"}

(***************************************************************************)
(* The Tone Generator's volume parameter of a melody synth, in thousandths *)
(* of a dB.  `level` is the value the parameter holds once the ramps       *)
(* already under way have ended; `restore` holds the scheduled ramp, if    *)
(* any: it starts at `at`, ends at `to` and lasts RestoreRamp ms.          *)
(***************************************************************************)
\* const baseVolume = -6, and volume.value = -6 of initialize()
baseVolume == -6000
\* now() + 0.01
TriggerDelay == 10
\* rampTo(originalVolume, 0.1, triggerTime + 0.5)
RestoreHold == 500
RestoreRamp == 100
\* currentTime - lastTriggerTime < 0.05
MinInterval == 50

FreshVolume == [level |-> baseVolume, restore |-> <<>>]

\* volume.value at time t
ValueAt(a, t) ==
  IF a.restore = <<>> \/ t <= a.restore[1].at THEN a.level
  ELSE IF t >= a.restore[1].at + RestoreRamp THEN a.restore[1].to
  ELSE a.level
         + ((a.restore[1].to - a.level) * (t - a.restore[1].at)) \div RestoreRamp

\* the automation as time t is reached: a ramp that has ended is its target
Settle(a, t) ==
  IF a.restore # <<>> /\ t >= a.restore[1].at + RestoreRamp
  THEN [level |-> a.restore[1].to, restore |-> <<>>]
  ELSE a

\* volume.rampTo(value, 0.01, startTime) with startTime 10 ms ahead: the
\* value at startTime is held, what was scheduled after it is cancelled,
\* and the ramp to `value` ends 10 ms later
RampToNow(a, value, startTime) ==
  [level |-> value, restore |-> <<>>]

\* volume.rampTo(value, 0.1, startTime) for a later startTime
RampToLater(a, value, startTime) ==
  [level |-> a.level, restore |-> << [at |-> startTime, to |-> value] >>]

\* 1000 * log2(n), rounded, for the note counts a chord can have
Log2Milli(n) ==
  CASE n = 1 -> 0    [] n = 2 -> 1000 [] n = 3 -> 1585 [] n = 4 -> 2000
    [] n = 5 -> 2322 [] n = 6 -> 2585 [] n = 7 -> 2807 [] n = 8 -> 3000

Max(a, b) == IF a >= b THEN a ELSE b
Min(a, b) == IF a <= b THEN a ELSE b

\* a variant of calculatePolyphonicVolume that does not clamp its result
calculatePolyphonicVolumeUnclamped(base, noteCount) ==
  IF noteCount <= 1 THEN base
  ELSE base - Log2Milli(noteCount) * 3

calculatePolyphonicVolume(base, noteCount) ==
  IF noteCount <= 1 THEN base
  ELSE LET volumeReduction == Log2Milli(noteCount) * 3
           scaledVolume == base - volumeReduction
       IN  Max(-30000, Min(0, scaledVolume))

(***************************************************************************)
(* AudioEngine.playDigit, piece by piece.                                  *)
(***************************************************************************)
Chars == {"0", "1", "2", "3", "4", "5", "6", "7", "8", "9", "."}
NoteChars == {"2", "3", "4", "5", "6", "7", "8", "9"}

\* const chordNotes = ...: the value of an expression, computed once
The(S) == CHOOSE x \in S : TRUE

\* parseInt(digit) of a note digit
ParseInt(digit) == CHOOSE n \in 0..9 : NumStr(n) = digit

\* a variant of Ready that lets every call through
ReadyAlways(init) == TRUE

\* if (!this.initialized) return
Ready(init) == init

\* a variant of Throttled that also drops a call exactly 50 ms later
ThrottledInclusive(currentTime, last) == currentTime - last <= MinInterval

\* if (currentTime - this.lastTriggerTime < 0.05) return
Throttled(currentTime, last) == currentTime - last < MinInterval

\* a variant of ThemeAfter whose note digits fall back to the dark theme
ThemeAfterDefaultDark(digit, theme) ==
  CASE digit = "0" -> "dark"
    [] digit = "1" -> "light"
    [] OTHER -> "dark"

\* this.currentTheme after the switch on the digit
ThemeAfter(digit, theme) ==
  CASE digit = "0" -> "dark"
    [] digit = "1" -> "light"
    [] OTHER -> theme

\* const activeSynth = this.currentTheme === 'dark' ? melodySynthDark : melodySynthLight
ActiveSynth(theme) == IF theme = "dark" THEN "dark" ELSE "light"

\* a variant of VoiceFor whose switch has a default case that plays the kick
VoiceForDefaultKick(digit, theme, chordNotes, synthState) ==
  CASE digit = "0" -> "kick"
    [] digit = "1" -> "hihat"
    [] digit \in NoteChars ->
         IF chordNotes = <<>> \/ synthState = "undefined" THEN "none"
         ELSE ActiveSynth(theme)
    [] OTHER -> "kick"

\* the synth whose triggerAttackRelease the switch reaches, "none" if none
VoiceFor(digit, theme, chordNotes, synthState) ==
  CASE digit = "0" -> "kick"
    [] digit = "1" -> "hihat"
    [] digit \in NoteChars ->
         IF chordNotes = <<>> \/ synthState = "undefined" THEN "none"
         ELSE ActiveSynth(theme)
    [] OTHER -> "none"

\* what triggerAttackRelease is given
TriggerNotes(digit, chordNotes) ==
  CASE digit = "0" -> <<"C1">>
    [] digit = "1" -> <<"G5">>
    [] OTHER -> chordNotes

\* the melody synth's volume after lines 392-413: ramp to the scaled volume,
\* trigger, and (unless the trigger threw) schedule the ramp back
VolumeAfterNote(a, noteCount, now, fail) ==
  LET triggerTime == now + TriggerDelay
      scaledVolume == calculatePolyphonicVolume(baseVolume, noteCount)
      originalVolume == ValueAt(a, now)
      ramped == RampToNow(a, scaledVolume, triggerTime)
  IN  IF fail THEN ramped
      ELSE RampToLater(ramped, originalVolume, triggerTime + RestoreHold)

\* playDigit past the throttle: the switch on the digit, given the theme it
\* sets and the chord notes it resolves
Dispatch(digit, now, fail, theme, chordNotes, voice) ==
  [ accepted |-> TRUE,
    last     |-> now,
    theme    |-> theme,
    voice    |-> voice,
    notes    |-> IF voice = "none" THEN <<>> ELSE TriggerNotes(digit, chordNotes),
    threw    |-> fail /\ voice # "none",
    volume   |-> IF voice \in MelodyVoices /\ synths = "created"
                 THEN [volume EXCEPT ![voice] =
                         VolumeAfterNote(@, Len(chordNotes), now, fail)]
                 ELSE volume ]

Accepted(digit, now, fail, theme, chordNotes) ==
  Dispatch(digit, now, fail, theme, chordNotes,
           VoiceFor(digit, theme, chordNotes, synths))

\* the call returns before the switch
Returned ==
  [ accepted |-> FALSE, last |-> lastTriggerTime, theme |-> currentTheme,
    voice |-> "none", notes |-> <<>>, threw |-> FALSE, volume |-> volume ]

\* the engine and Tone Generator state playDigit(digit) leaves, the call
\* made at time `now` with the trigger throwing iff `fail`, on an engine
\* whose initialized field reads `init`
PlayDigitFrom(init, digit, now, fail) ==
  IF ~Ready(init) THEN Returned
  ELSE IF Throttled(now, lastTriggerTime) THEN Returned
  ELSE The({ Accepted(digit, now, fail, ThemeAfter(digit, currentTheme), chordNotes) :
               chordNotes \in { IF digit \in NoteChars
                                THEN digitToChordNotes(currentKey, currentMode,
                                                       currentChord, ParseInt(digit), 4)
                                ELSE <<>> } })

PlayDigitResult(digit, now, fail) == PlayDigitFrom(initialized, digit, now, fail)

(***************************************************************************)
(* MusicTheoryEngine mutators: the new value of the field, whether the     *)
(* call threw, and the error's message up to the rejected value.           *)
(***************************************************************************)
setKey(current, key) ==
  IF key \notin validKeys
  THEN [value |-> current, threw |-> TRUE, error |-> "Invalid key: " \o key]
  ELSE [value |-> key, threw |-> FALSE, error |-> ""]

\* MODES[mode] reads a property of an object literal: besides the eight
\* modes, the names every object inherits from Object.prototype are found,
\* and what is found there is truthy
ObjectPrototypeKeys ==
  { "constructor", "toString", "toLocaleString", "valueOf", "hasOwnProperty",
    "isPrototypeOf", "propertyIsEnumerable", "__proto__" }

\* !MODES[mode]
NoSuchMode(mode) == mode \notin ModeType \cup ObjectPrototypeKeys

setMode(current, mode) ==
  IF NoSuchMode(mode)
  THEN [value |-> current, threw |-> TRUE, error |-> "Invalid mode: " \o mode]
  ELSE [value |-> mode, threw |-> FALSE, error |-> ""]

setChord(current, chord) == [value |-> chord, threw |-> FALSE]

\* what callers pass: every valid value and one that is not
KeyInputs == validKeys \cup {"H"}
ModeInputs == ModeType \cup {"blues"}
\* the same, and a name that is no mode but that every object has
ConfigModeInputs == ModeInputs \cup {"constructor"}
Octaves == {3, 4}
DigitInputs == (0 - DigitSlack)..(9 + DigitSlack)

\* the chord settings and clock steps the engine is exercised with
EngineChords == {"none", "triads"}
Steps == {25, 50}

(***************************************************************************)
(* Initial state: new AudioEngine(), which holds a new MusicTheoryEngine() *)
(***************************************************************************)
Init ==
  /\ currentKey = "C"
  /\ currentMode = "ionian"
  /\ currentChord = "triads"
  /\ initialized = FALSE
  /\ lastTriggerTime = 0
  /\ currentTheme = "dark"
  /\ synths = "undefined"
  /\ pending = 0
  /\ clock = 0
  /\ volume = [v \in MelodyVoices |-> FreshVolume]
  /\ out = [op |-> "new"]
  /\ hist = [acceptedAt |-> <<>>, perc |-> "none"]
  /\ mounted = "new"
  /\ isPlaying = FALSE
  /\ currentDigitIndex = 1
  /\ piDigits = <<"3", ".">>
  /\ position = 0
  /\ tempo = 180
  /\ appTheme = "dark"
  /\ thens = <<>>

(***************************************************************************)
(* MusicTheoryEngine operations.                                           *)
(***************************************************************************)
DigitToScaleDegree(digit) ==
  /\ out' = [op |-> "digitToScaleDegree", digit |-> digit,
             result |-> digitToScaleDegree(digit)]
  /\ UNCHANGED <<theoryVars, engineVars, toneVars, hist>>
  /\ UNCHANGED appVars

GetCurrentScaleNotes ==
  /\ out' = [op |-> "getCurrentScaleNotes",
             result |-> getCurrentScaleNotes(currentKey, currentMode)]
  /\ UNCHANGED <<theoryVars, engineVars, toneVars, hist>>
  /\ UNCHANGED appVars

\* a variant of DigitToChordNotes that resolves against the key the engine
\* was constructed with
DigitToChordNotesStaleKey(digit, octave) ==
  /\ out' = [op |-> "digitToChordNotes", digit |-> digit, octave |-> octave,
             result |-> digitToChordNotes("C", currentMode, currentChord,
                                          digit, octave)]
  /\ UNCHANGED <<theoryVars, engineVars, toneVars, hist>>
  /\ UNCHANGED appVars

DigitToChordNotes(digit, octave) ==
  /\ out' = [op |-> "digitToChordNotes", digit |-> digit, octave |-> octave,
             result |-> digitToChordNotes(currentKey, currentMode, currentChord,
                                          digit, octave)]
  /\ UNCHANGED <<theoryVars, engineVars, toneVars, hist>>
  /\ UNCHANGED appVars

SetKey(key) ==
  /\ currentKey' = setKey(currentKey, key).value
  /\ out' = [op |-> "setKey", arg |-> key, threw |-> setKey(currentKey, key).threw,
             error |-> setKey(currentKey, key).error]
  /\ UNCHANGED <<currentMode, currentChord, engineVars, toneVars, hist>>
  /\ UNCHANGED appVars

SetMode(mode) ==
  /\ currentMode' = setMode(currentMode, mode).value
  /\ out' = [op |-> "setMode", arg |-> mode, threw |-> setMode(currentMode, mode).threw,
             error |-> setMode(currentMode, mode).error]
  /\ UNCHANGED <<currentKey, currentChord, engineVars, toneVars, hist>>
  /\ UNCHANGED appVars

SetChord(chord) ==
  /\ currentChord' = setChord(currentChord, chord).value
  /\ out' = [op |-> "setChord", arg |-> chord, threw |-> FALSE]
  /\ UNCHANGED <<currentKey, currentMode, engineVars, toneVars, hist>>
  /\ UNCHANGED appVars

(***************************************************************************)
(* AudioEngine operations and the audio clock.                             *)
(***************************************************************************)
\* the audio context's time advances by dt
Tick(dt) ==
  /\ clock + dt <= MaxTime
  /\ clock' = clock + dt
  /\ volume' = [v \in MelodyVoices |-> Settle(volume[v], clock + dt)]
  /\ out' = [op |-> "tick"]
  /\ UNCHANGED <<theoryVars, engineVars, hist>>
  /\ UNCHANGED appVars

\* initialize() up to `await start()`
InitializeBegin ==
  /\ initialized \/ pending < MaxPending
  /\ IF initialized
     THEN /\ out' = [op |-> "initialize", constructed |-> FALSE]
          /\ UNCHANGED <<synths, pending, volume>>
     ELSE /\ synths' = "created"
          /\ volume' = [v \in MelodyVoices |-> FreshVolume]
          /\ pending' = pending + 1
          /\ out' = [op |-> "initialize", constructed |-> TRUE]
  /\ UNCHANGED <<theoryVars, initialized, lastTriggerTime, currentTheme, clock, hist>>
  /\ UNCHANGED appVars

\* initialize() from `await start()` on: start() resolved (ok) or rejected
InitializeResume(ok) ==
  /\ pending > 0
  /\ pending' = pending - 1
  /\ initialized' = IF ok THEN TRUE ELSE initialized
  /\ out' = [op |-> "initializeResume", ok |-> ok]
  /\ UNCHANGED <<theoryVars, lastTriggerTime, currentTheme, synths, toneVars, hist>>
  /\ UNCHANGED appVars

\* catch (synthError) and catch (error) of playDigit log and do not rethrow
Rethrown(threw) == FALSE

\* playDigit(digit); the Tone Generator throws in the trigger iff `fail`
PlayDigit(digit, fail) ==
  \E r \in {PlayDigitResult(digit, clock, fail)},
     ok \in {PlayDigitResult(digit, clock, FALSE)} :
      /\ lastTriggerTime' = r.last
      /\ currentTheme' = r.theme
      /\ volume' = r.volume
      /\ out' = [op |-> "playDigit", digit |-> digit, at |-> clock,
                 accepted |-> r.accepted, voice |-> r.voice, notes |-> r.notes,
                 threw |-> r.threw, raised |-> Rethrown(r.threw),
                 ifOk |-> [last |-> ok.last, theme |-> ok.theme,
                           volume |-> ok.volume]]
      /\ hist' = IF r.accepted
                 THEN [acceptedAt |-> <<clock>>,
                       perc |-> IF digit \in {"0", "1"} THEN digit ELSE hist.perc]
                 ELSE hist
      /\ UNCHANGED <<theoryVars, initialized, synths, pending, clock>>
      /\ UNCHANGED appVars

dispose ==
  /\ synths' = IF synths = "created" THEN "disposed" ELSE synths
  /\ initialized' = FALSE
  /\ out' = [op |-> "dispose"]
  /\ UNCHANGED <<theoryVars, lastTriggerTime, currentTheme, pending, toneVars, hist>>
  /\ UNCHANGED appVars

setMusicalChord(chord) ==
  /\ currentChord' = setChord(currentChord, chord).value
  /\ out' = [op |-> "setMusicalChord", arg |-> chord,
             threw |-> setChord(currentChord, chord).threw]
  /\ UNCHANGED <<currentKey, currentMode, engineVars, toneVars, hist>>
  /\ UNCHANGED appVars

\* setMusicalKey(key): setKey inside try / catch; the catch logs the error
\* and returns, so nothing is raised to the caller
setMusicalKey(key) ==
  /\ currentKey' = setKey(currentKey, key).value
  /\ out' = [op |-> "setMusicalKey", arg |-> key,
             caught |-> setKey(currentKey, key).threw, raised |-> FALSE]
  /\ UNCHANGED <<currentMode, currentChord, engineVars, toneVars, hist>>
  /\ UNCHANGED appVars

\* setMusicalMode(mode): the same around setMode
setMusicalMode(mode) ==
  /\ currentMode' = setMode(currentMode, mode).value
  /\ out' = [op |-> "setMusicalMode", arg |-> mode,
             caught |-> setMode(currentMode, mode).threw, raised |-> FALSE]
  /\ UNCHANGED <<currentKey, currentChord, engineVars, toneVars, hist>>
  /\ UNCHANGED appVars

\* setTheme(theme): a plain write of the theme cell
setTheme(theme) ==
  /\ currentTheme' = theme
  /\ out' = [op |-> "setTheme", arg |-> theme]
  /\ UNCHANGED <<theoryVars, initialized, lastTriggerTime, synths, pending,
                 toneVars, hist>>
  /\ UNCHANGED appVars

(***************************************************************************)
(* PiGenerator.                                                            *)
(***************************************************************************)
\* the first 1000 digits of pi after "3."
piSequence ==
  << "1", "4", "1", "5", "9", "2", "6", "5", "3", "5", "8", "9", "7", "9", "3", "2", "3", "8", "4", "6",
     "2", "6", "4", "3", "3", "8", "3", "2", "7", "9", "5", "0", "2", "8", "8", "4", "1", "9", "7", "1",
     "6", "9", "3", "9", "9", "3", "7", "5", "1", "0", "5", "8", "2", "0", "9", "7", "4", "9", "4", "4",
     "5", "9", "2", "3", "0", "7", "8", "1", "6", "4", "0", "6", "2", "8", "6", "2", "0", "8", "9", "9",
     "8", "6", "2", "8", "0", "3", "4", "8", "2", "5", "3", "4", "2", "1", "1", "7", "0", "6", "7", "9",
     "8", "2", "1", "4", "8", "0", "8", "6", "5", "1", "3", "2", "8", "2", "3", "0", "6", "6", "4", "7",
     "0", "9", "3", "8", "4", "4", "6", "0", "9", "5", "5", "0", "5", "8", "2", "2", "3", "1", "7", "2",
     "5", "3", "5", "9", "4", "0", "8", "1", "2", "8", "4", "8", "1", "1", "1", "7", "4", "5", "0", "2",
     "8", "4", "1", "0", "2", "7", "0", "1", "9", "3", "8", "5", "2", "1", "1", "0", "5", "5", "5", "9",
     "6", "4", "4", "6", "2", "2", "9", "4", "8", "9", "5", "4", "9", "3", "0", "3", "8", "1", "9", "6",
     "4", "4", "2", "8", "8", "1", "0", "9", "7", "5", "6", "6", "5", "9", "3", "3", "4", "4", "6", "1",
     "2", "8", "4", "7", "5", "6", "4", "8", "2", "3", "3", "7", "8", "6", "7", "8", "3", "1", "6", "5",
     "2", "7", "1", "2", "0", "1", "9", "0", "9", "1", "4", "5", "6", "4", "8", "5", "6", "6", "9", "2",
     "3", "4", "6", "0", "3", "4", "8", "6", "1", "0", "4", "5", "4", "3", "2", "6", "6", "4", "8", "2",
     "1", "3", "3", "9", "3", "6", "0", "7", "2", "6", "0", "2", "4", "9", "1", "4", "1", "2", "7", "3",
     "7", "2", "4", "5", "8", "7", "0", "0", "6", "6", "0", "6", "3", "1", "5", "5", "8", "8", "1", "7",
     "4", "8", "8", "1", "5", "2", "0", "9", "2", "0", "9", "6", "2", "8", "2", "9", "2", "5", "4", "0",
     "9", "1", "7", "1", "5", "3", "6", "4", "3", "6", "7", "8", "9", "2", "5", "9", "0", "3", "6", "0",
     "0", "1", "1", "3", "3", "0", "5", "3", "0", "5", "4", "8", "8", "2", "0", "4", "6", "6", "5", "2",
     "1", "3", "8", "4", "1", "4", "6", "9", "5", "1", "9", "4", "1", "5", "1", "1", "6", "0", "9", "4",
     "3", "3", "0", "5", "7", "2", "7", "0", "3", "6", "5", "7", "5", "9", "5", "9", "1", "9", "5", "3",
     "0", "9", "2", "1", "8", "6", "1", "1", "7", "3", "8", "1", "9", "3", "2", "6", "1", "1", "7", "9",
     "3", "1", "0", "5", "1", "1", "8", "5", "4", "8", "0", "7", "4", "4", "6", "2", "3", "7", "9", "9",
     "6", "2", "7", "4", "9", "5", "6", "7", "3", "5", "1", "8", "8", "5", "7", "5", "2", "7", "2", "4",
     "8", "9", "1", "2", "2", "7", "9", "3", "8", "1", "8", "3", "0", "1", "1", "9", "4", "9", "1", "2",
     "9", "8", "3", "3", "6", "7", "3", "3", "6", "2", "4", "4", "0", "6", "5", "6", "6", "4", "3", "0",
     "8", "6", "0", "2", "1", "3", "9", "4", "9", "4", "6", "3", "9", "5", "2", "2", "4", "7", "3", "7",
     "1", "9", "0", "7", "0", "2", "1", "7", "9", "8", "6", "0", "9", "4", "3", "7", "0", "2", "7", "7",
     "0", "5", "3", "9", "2", "1", "7", "1", "7", "6", "2", "9", "3", "1", "7", "6", "7", "5", "2", "3",
     "8", "4", "6", "7", "4", "8", "1", "8", "4", "6", "7", "6", "6", "9", "4", "0", "5", "1", "3", "2",
     "0", "0", "0", "5", "6", "8", "1", "2", "7", "1", "4", "5", "2", "6", "3", "5", "6", "0", "8", "2",
     "7", "7", "8", "5", "7", "7", "1", "3", "4", "2", "7", "5", "7", "7", "8", "9", "6", "0", "9", "1",
     "7", "3", "6", "3", "7", "1", "7", "8", "7", "2", "1", "4", "6", "8", "4", "4", "0", "9", "0", "1",
     "2", "2", "4", "9", "5", "3", "4", "3", "0", "1", "4", "6", "5", "4", "9", "5", "8", "5", "3", "7",
     "1", "0", "5", "0", "7", "9", "2", "2", "7", "9", "6", "8", "9", "2", "5", "8", "9", "2", "3", "5",
     "4", "2", "0", "1", "9", "9", "5", "6", "1", "1", "2", "1", "2", "9", "0", "2", "1", "9", "6", "0",
     "8", "6", "4", "0", "3", "4", "4", "1", "8", "1", "5", "9", "8", "1", "3", "6", "2", "9", "7", "7",
     "4", "7", "7", "1", "3", "0", "9", "9", "6", "0", "5", "1", "8", "7", "0", "7", "2", "1", "1", "3",
     "4", "9", "9", "9", "9", "9", "9", "8", "3", "7", "2", "9", "7", "8", "0", "4", "9", "9", "5", "1",
     "0", "5", "9", "7", "3", "1", "7", "3", "2", "8", "1", "6", "0", "9", "6", "3", "1", "8", "5", "9",
     "5", "0", "2", "4", "4", "5", "9", "4", "5", "5", "3", "4", "6", "9", "0", "8", "3", "0", "2", "6",
     "4", "2", "5", "2", "2", "3", "0", "8", "2", "5", "3", "3", "4", "4", "6", "8", "5", "0", "3", "5",
     "2", "6", "1", "9", "3", "1", "1", "8", "8", "1", "7", "1", "0", "1", "0", "0", "0", "3", "1", "3",
     "7", "8", "3", "8", "7", "5", "2", "8", "8", "6", "5", "8", "7", "5", "3", "3", "2", "0", "8", "3",
     "8", "1", "4", "2", "0", "6", "1", "7", "1", "7", "7", "6", "6", "9", "1", "4", "7", "3", "0", "3",
     "5", "9", "8", "2", "5", "3", "4", "9", "0", "4", "2", "8", "7", "5", "5", "4", "6", "8", "7", "3",
     "1", "1", "5", "9", "5", "6", "2", "8", "6", "3", "8", "8", "2", "3", "5", "3", "7", "8", "7", "5",
     "9", "3", "7", "5", "1", "9", "5", "7", "7", "8", "1", "8", "5", "7", "7", "8", "0", "5", "3", "2",
     "1", "7", "1", "2", "2", "6", "8", "0", "6", "6", "1", "3", "0", "0", "1", "9", "2", "7", "8", "7",
     "6", "6", "1", "1", "1", "9", "5", "9", "0", "9", "2", "1", "6", "4", "2", "0", "1", "9", "8", "9" >>

\* generateNextDigit() at `pos`: the digit and the position it leaves
generateNextDigit(pos) ==
  LET p == IF pos >= Len(piSequence) THEN 0 ELSE pos
  IN  [digit |-> piSequence[p + 1], position |-> p + 1]

\* the generator's position after i calls of generateNextDigit() from `pos`
positionAfter(pos, i) ==
  IF i = 0 THEN pos ELSE ((pos + i - 1) % Len(piSequence)) + 1

\* generateDigits(count) at `pos`: the digits of the count calls of
\* generateNextDigit(), and the position they leave
generateDigits(pos, count) ==
  [digits   |-> [i \in 1..count |-> generateNextDigit(positionAfter(pos, i - 1)).digit],
   position |-> positionAfter(pos, count)]

(***************************************************************************)
(* App: the playback timeline, the keyboard and the displayed theme.  An   *)
(* action is one event handler together with the render and the effects    *)
(* that follow it.                                                         *)
(***************************************************************************)
\* how many digits the effect asks for at a time
ChunkSize == 50
\* how close to the end of piDigits the index comes before more are generated
Lookahead == 10
\* the length from which piDigits is no longer extended
LengthLimit == 500

\* a variant of NeedsMoreDigits that stops extending one chunk earlier
NeedsMoreDigitsEarlyStop(index, length) ==
  index >= length - Lookahead /\ length < LengthLimit - ChunkSize

\* currentDigitIndex >= piDigits.length - 10 && piDigits.length < 500
NeedsMoreDigits(index, length) ==
  index >= length - Lookahead /\ length < LengthLimit

\* the effect on [currentDigitIndex, piDigits.length], run until it no longer
\* applies: piDigits and the generator's position
RECURSIVE Extended(_, _, _)
Extended(digits, pos, index) ==
  IF NeedsMoreDigits(index, Len(digits))
  THEN LET newDigits == generateDigits(pos, ChunkSize)
       IN  Extended(digits \o newDigits.digits, newDigits.position, index)
  ELSE [piDigits |-> digits, position |-> pos]

\* piDigits[currentDigitIndex] || '3'
currentDigit(digits, index) ==
  IF At(digits, index) = Undefined THEN "3" ELSE At(digits, index)

\* the effect on [currentDigit]: it runs when the displayed digit changes
ShownTheme(before, after, theme) ==
  IF after = before THEN theme
  ELSE CASE after = "0" -> "dark"
         [] after = "1" -> "light"
         [] OTHER -> theme

\* the theme a key press sets directly
KeyTheme(key, theme) ==
  CASE key = "0" -> "dark"
    [] key = "1" -> "light"
    [] OTHER -> theme

\* const intervalMs = 60000 / tempo
intervalMs == 60000 \div tempo

\* a variant of newIndex that steps over a position
newIndexSkipping(prev) == prev + 2

\* const newIndex = prev + 1
newIndex(prev) == prev + 1

\* if (digit && digit !== '.')
TimerDispatches(digit) == digit # Undefined /\ digit # "."

\* a variant of Resolves whose promise rejects when start() does
ResolvesOnSuccess(ok) == ok

\* initialize() catches what its body throws, so its promise resolves
\* whether start() resolved or rejected
Resolves(ok) == TRUE

\* the history after a playDigit(digit) call at `now` with result r
HistAfter(r, digit, now) ==
  IF r.accepted
  THEN [acceptedAt |-> <<now>>,
        perc |-> IF digit \in {"0", "1"} THEN digit ELSE hist.perc]
  ELSE hist

\* the tempos of the slider and the digit keys that are followed: the two
\* that set the theme
Tempos == {180, 600}
AppKeys == {"0", "1"}

\* the component mounts: the effects of the first render leave "3." and the
\* first digits of the generator
Mount ==
  /\ mounted = "new"
  /\ mounted' = "mounted"
  /\ \E e \in {Extended(<<"3", ".">>, position, currentDigitIndex)} :
       /\ piDigits' = e.piDigits
       /\ position' = e.position
  /\ out' = [op |-> "mount"]
  /\ UNCHANGED <<isPlaying, currentDigitIndex, tempo, appTheme, thens>>
  /\ UNCHANGED <<theoryVars, engineVars, toneVars, hist>>

\* Space, or the play / pause button
KeySpace ==
  /\ mounted = "mounted"
  /\ IF isPlaying
     THEN /\ isPlaying' = FALSE
          /\ out' = [op |-> "keySpace", constructed |-> FALSE]
          /\ UNCHANGED <<synths, pending, volume, thens>>
     ELSE IF initialized
     THEN /\ isPlaying' = TRUE
          /\ out' = [op |-> "keySpace", constructed |-> FALSE]
          /\ UNCHANGED <<synths, pending, volume, thens>>
     ELSE /\ Len(thens) < MaxThens
          /\ synths' = "created"
          /\ volume' = [v \in MelodyVoices |-> FreshVolume]
          /\ pending' = pending + 1
          /\ thens' = Append(thens, "play")
          /\ out' = [op |-> "keySpace", constructed |-> TRUE]
          /\ UNCHANGED isPlaying
  /\ UNCHANGED <<mounted, currentDigitIndex, piDigits, position, tempo, appTheme>>
  /\ UNCHANGED <<theoryVars, initialized, lastTriggerTime, currentTheme, clock, hist>>

\* a key '0'..'9'
KeyDigit(key) ==
  /\ mounted = "mounted"
  /\ appTheme' = KeyTheme(key, appTheme)
  /\ IF ~initialized
     THEN /\ Len(thens) < MaxThens
          /\ synths' = "created"
          /\ volume' = [v \in MelodyVoices |-> FreshVolume]
          /\ pending' = pending + 1
          /\ thens' = Append(thens, key)
          /\ out' = [op |-> "keyDigit", digit |-> key, called |-> FALSE,
                     accepted |-> FALSE, voice |-> "none"]
          /\ UNCHANGED <<lastTriggerTime, currentTheme, hist>>
     ELSE \E r \in {PlayDigitResult(key, clock, FALSE)} :
            /\ lastTriggerTime' = r.last
            /\ currentTheme' = r.theme
            /\ volume' = r.volume
            /\ hist' = HistAfter(r, key, clock)
            /\ out' = [op |-> "keyDigit", digit |-> key, called |-> TRUE,
                       accepted |-> r.accepted, voice |-> r.voice]
            /\ UNCHANGED <<synths, pending, thens>>
  /\ UNCHANGED <<mounted, isPlaying, currentDigitIndex, piDigits, position, tempo>>
  /\ UNCHANGED <<theoryVars, initialized, clock>>

\* start() of the oldest suspended initialize() settles, resolved (ok) or
\* rejected, and the .then callback of that call runs
StartSettles(ok) ==
  /\ thens # <<>>
  /\ thens' = Tail(thens)
  /\ pending' = pending - 1
  /\ initialized' = IF ok THEN TRUE ELSE initialized
  /\ \E then \in {Head(thens)}, init \in {IF ok THEN TRUE ELSE initialized} :
       IF ~Resolves(ok)
       THEN /\ out' = [op |-> "startSettles", ok |-> ok, then |-> then,
                       raised |-> TRUE, called |-> FALSE,
                       accepted |-> FALSE, voice |-> "none"]
            /\ UNCHANGED <<isPlaying, lastTriggerTime, currentTheme, volume, hist>>
       ELSE IF then = "play"
       THEN /\ isPlaying' = IF mounted = "mounted" THEN TRUE ELSE isPlaying
            /\ out' = [op |-> "startSettles", ok |-> ok, then |-> then,
                       raised |-> FALSE, called |-> FALSE,
                       accepted |-> FALSE, voice |-> "none"]
            /\ UNCHANGED <<lastTriggerTime, currentTheme, volume, hist>>
       ELSE \E r \in {PlayDigitFrom(init, then, clock, FALSE)} :
              /\ lastTriggerTime' = r.last
              /\ currentTheme' = r.theme
              /\ volume' = r.volume
              /\ hist' = HistAfter(r, then, clock)
              /\ out' = [op |-> "startSettles", ok |-> ok, then |-> then,
                         raised |-> FALSE, called |-> TRUE,
                         accepted |-> r.accepted, voice |-> r.voice]
              /\ UNCHANGED isPlaying
  /\ UNCHANGED <<mounted, currentDigitIndex, piDigits, position, tempo, appTheme>>
  /\ UNCHANGED <<theoryVars, synths, clock>>

\* the interval of the playback timer elapses and its callback runs
TimerTick ==
  /\ mounted = "mounted"
  /\ isPlaying
  /\ clock' = clock + intervalMs
  /\ IF currentDigitIndex >= Len(piDigits) - 1
     THEN /\ isPlaying' = FALSE
          /\ volume' = [v \in MelodyVoices |-> Settle(volume[v], clock + intervalMs)]
          /\ out' = [op |-> "timerTick", index |-> currentDigitIndex,
                     stopped |-> TRUE, char |-> Undefined, called |-> FALSE,
                     accepted |-> FALSE, voice |-> "none"]
          /\ UNCHANGED <<currentDigitIndex, piDigits, position, appTheme,
                         lastTriggerTime, currentTheme, hist>>
     ELSE \E digit \in {At(piDigits, newIndex(currentDigitIndex))} :
          \E r \in {IF TimerDispatches(digit)
                    THEN PlayDigitResult(digit, clock + intervalMs, FALSE)
                    ELSE Returned},
             e \in {Extended(piDigits, position, newIndex(currentDigitIndex))} :
            /\ currentDigitIndex' = newIndex(currentDigitIndex)
            /\ lastTriggerTime' = r.last
            /\ currentTheme' = r.theme
            /\ volume' = [v \in MelodyVoices |->
                            Settle(r.volume[v], clock + intervalMs)]
            /\ hist' = HistAfter(r, digit, clock + intervalMs)
            /\ appTheme' = ShownTheme(currentDigit(piDigits, currentDigitIndex),
                                      currentDigit(piDigits, newIndex(currentDigitIndex)),
                                      appTheme)
            /\ piDigits' = e.piDigits
            /\ position' = e.position
            /\ out' = [op |-> "timerTick", index |-> newIndex(currentDigitIndex),
                       stopped |-> FALSE, char |-> digit,
                       called |-> TimerDispatches(digit),
                       accepted |-> r.accepted, voice |-> r.voice]
            /\ UNCHANGED isPlaying
  /\ UNCHANGED <<mounted, tempo, thens>>
  /\ UNCHANGED <<theoryVars, initialized, synths, pending>>

\* the tempo slider: setTempo(Number(e.target.value))
SetTempo(value) ==
  /\ mounted = "mounted"
  /\ tempo' = value
  /\ out' = [op |-> "setTempo", arg |-> value]
  /\ UNCHANGED <<mounted, isPlaying, currentDigitIndex, piDigits, position,
                 appTheme, thens>>
  /\ UNCHANGED <<theoryVars, engineVars, toneVars, hist>>

\* the component unmounts: the cleanup effects clear the interval and call
\* audioEngine.current.dispose()
Unmount ==
  /\ mounted = "mounted"
  /\ mounted' = "unmounted"
  /\ synths' = IF synths = "created" THEN "disposed" ELSE synths
  /\ initialized' = FALSE
  /\ out' = [op |-> "unmount"]
  /\ UNCHANGED <<isPlaying, currentDigitIndex, piDigits, position, tempo,
                 appTheme, thens>>
  /\ UNCHANGED <<theoryVars, lastTriggerTime, currentTheme, pending, toneVars, hist>>

(***************************************************************************)
(* Specifications.                                                         *)
(***************************************************************************)
\* the engine under its callers and the audio clock
Next ==
  \/ \E dt \in Steps : Tick(dt)
  \/ InitializeBegin
  \/ \E ok \in BOOLEAN : InitializeResume(ok)
  \/ \E digit \in Chars, fail \in BOOLEAN : PlayDigit(digit, fail)
  \/ dispose
  \/ \E chord \in EngineChords : setMusicalChord(chord)
  \/ \E theme \in MelodyVoices : setTheme(theme)

\* the bases and note counts calculatePolyphonicVolume is applied to
BaseInputs == { 1000 * b : b \in (0 - MaxBase)..MaxBase }
NoteCounts == 1..8

\* calculatePolyphonicVolume(baseVolume, noteCount)
CalculatePolyphonicVolume(base, noteCount) ==
  /\ out' = [op |-> "calculatePolyphonicVolume", base |-> base,
             noteCount |-> noteCount,
             result |-> calculatePolyphonicVolume(base, noteCount)]
  /\ UNCHANGED <<theoryVars, engineVars, toneVars, hist>>
  /\ UNCHANGED appVars

\* the gain computation alone
NextVolume ==
  \E base \in BaseInputs, noteCount \in NoteCounts :
     CalculatePolyphonicVolume(base, noteCount)

SpecVolume == Init /\ [][NextVolume]_vars

\* the audio context's time advances by dt, far enough for the hold and the
\* restore ramp of a note to pass
Wait(dt) ==
  /\ clock + dt <= MaxWait
  /\ clock' = clock + dt
  /\ volume' = [v \in MelodyVoices |-> Settle(volume[v], clock + dt)]
  /\ out' = [op |-> "wait"]
  /\ UNCHANGED <<theoryVars, engineVars, hist>>
  /\ UNCHANGED appVars

\* the digits and clock steps the gain compensation is followed with
GainDigits == {"0", "1", "2", "5"}
Holds == {100, 600}

\* the engine playing digits whose triggers succeed, over the time a
\* compensation takes to be restored
NextGain ==
  \/ \E dt \in Holds : Wait(dt)
  \/ InitializeBegin
  \/ \E ok \in BOOLEAN : InitializeResume(ok)
  \/ \E digit \in GainDigits : PlayDigit(digit, FALSE)
  \/ \E chord \in EngineChords : setMusicalChord(chord)

SpecGain == Init /\ [][NextGain]_vars

\* the music theory engine's mutators alone, under any string a caller of
\* setMusicalKey / setMusicalMode / setMusicalChord can pass
NextConfig ==
  \/ \E key \in KeyInputs : SetKey(key)
  \/ \E mode \in ConfigModeInputs : SetMode(mode)
  \/ \E chord \in ChordSettings : SetChord(chord)

SpecConfig == Init /\ [][NextConfig]_vars

\* the engine's configuration mutators, under any string the UI can pass
NextSettings ==
  \/ \E key \in KeyInputs : setMusicalKey(key)
  \/ \E mode \in ConfigModeInputs : setMusicalMode(mode)
  \/ \E chord \in ChordSettings : setMusicalChord(chord)

SpecSettings == Init /\ [][NextSettings]_vars

\* a tick of the playback timer within the time the App is followed for
TimedTick ==
  /\ clock + intervalMs <= MaxWait
  /\ TimerTick

\* the App under its user, the timer and the audio start, followed for the
\* first MaxWait ms
NextApp ==
  \/ Mount
  \/ \E dt \in Holds : Wait(dt)
  \/ KeySpace
  \/ \E key \in AppKeys : KeyDigit(key)
  \/ \E ok \in BOOLEAN : StartSettles(ok)
  \/ TimedTick
  \/ \E value \in Tempos : SetTempo(value)
  \/ Unmount

SpecApp == Init /\ [][NextApp]_vars

\* the user starts playback and lets it run
StartPlaying ==
  /\ ~isPlaying
  /\ currentDigitIndex < Len(piDigits) - 1
  /\ KeySpace

\* the App playing from the start to the end of its buffer
NextBuffer ==
  \/ Mount
  \/ StartPlaying
  \/ \E ok \in BOOLEAN : StartSettles(ok)
  \/ TimerTick

SpecBuffer == Init /\ [][NextBuffer]_vars

\* setInterval runs its callback again and again while the interval exists
SpecBufferFair == SpecBuffer /\ WF_vars(TimerTick)

Spec == Init /\ [][Next]_vars

\* the music theory engine alone
NextTheory ==
  \/ \E digit \in DigitInputs : DigitToScaleDegree(digit)
  \/ GetCurrentScaleNotes
  \/ \E digit \in DigitInputs, octave \in Octaves : DigitToChordNotes(digit, octave)
  \/ \E key \in KeyInputs : SetKey(key)
  \/ \E mode \in ModeInputs : SetMode(mode)
  \/ \E chord \in ChordSettings : SetChord(chord)

SpecTheory == Init /\ [][NextTheory]_vars

(***************************************************************************)
(* Properties.                                                             *)
(***************************************************************************)
NoteDigits == 2..9
SingleNames == {"none", "Single Notes Only"}
TriadNames == {"triads", "Basic Triads"}
SeventhNames == {"seventh", "Seventh Chords"}
ExtendedNames == {"extended", "Extended Chords"}

\* the last operation was digitToChordNotes on a note digit
ChordLookup == out.op = "digitToChordNotes" /\ out.digit \in NoteDigits

\* the last operation was a playDigit call that got past the throttle
AcceptedCall == out.op = "playDigit" /\ out.accepted

\* C1: the theme starts dark; an accepted playDigit('1') leaves it light, an
\* accepted playDigit('0') leaves it dark, and an accepted playDigit of a
\* note digit '2'..'9' leaves it as it was.
C1_ThemeTransitions ==
  /\ currentTheme = "dark"
  /\ [][ (out'.op = "playDigit" /\ out'.accepted) =>
           /\ out'.digit = "1" => currentTheme' = "light"
           /\ out'.digit = "0" => currentTheme' = "dark"
           /\ out'.digit \in NoteChars => currentTheme' = currentTheme ]_vars

\* an accepted note digit that found and left the theme light
C1_Witness ==
  AcceptedCall /\ out.digit = "5" /\ currentTheme = "light" /\ hist.perc = "1"

\* C2: on an initialized engine, a playDigit call less than 50 ms after the
\* previously accepted call dispatches nothing and leaves the throttle
\* window where it was; a call of a digit '0'..'9' at least 50 ms after the
\* previously accepted call is accepted and dispatched, whatever voice the
\* previous call went to.
C2_Throttle ==
  [][ (out'.op = "playDigit" /\ initialized /\ hist.acceptedAt # <<>>) =>
        /\ clock - hist.acceptedAt[1] < 50 =>
             /\ ~out'.accepted
             /\ out'.voice = "none"
             /\ lastTriggerTime' = lastTriggerTime
             /\ hist' = hist
        /\ clock - hist.acceptedAt[1] >= 50 =>
             /\ out'.accepted
             /\ lastTriggerTime' = clock
             /\ out'.digit \in (NoteChars \cup {"0", "1"}) => out'.voice # "none" ]_vars

\* a note digit dropped 25 ms after an accepted call
C2_Witness ==
  /\ out.op = "playDigit" /\ initialized /\ ~out.accepted
  /\ out.digit \in NoteChars
  /\ hist.acceptedAt # <<>>
  /\ out.at - hist.acceptedAt[1] = 25
  /\ lastTriggerTime = hist.acceptedAt[1]

\* C3: while initialized is false, playDigit issues no trigger and changes
\* nothing of the engine or of the Tone Generator: not the theme, not
\* lastTriggerTime, and nothing that the completion of initialize() would
\* later play; the completion of initialize() itself triggers nothing.
C3_NotInitializedNoOp ==
  [][ /\ (out'.op = "playDigit" /\ ~initialized) =>
           /\ out'.voice = "none" /\ out'.notes = <<>> /\ ~out'.accepted
           /\ UNCHANGED <<theoryVars, engineVars, toneVars, hist>>
      /\ out'.op = "initializeResume" =>
           UNCHANGED <<currentTheme, lastTriggerTime, volume, hist>> ]_vars

\* playDigit('1') on an engine whose initialize() is still suspended, at a
\* time the throttle would let it through
C3_Witness ==
  /\ out.op = "playDigit" /\ out.digit = "1" /\ ~out.accepted
  /\ ~initialized /\ pending = 1 /\ synths = "created"
  /\ out.at >= 50
  /\ currentTheme = "dark"

\* the automation of a melody synth after the next accepted note call, made
\* at time t with noteCount notes
NextNoteCall(a, noteCount, t) == VolumeAfterNote(Settle(a, t), noteCount, t, FALSE)
\* how long after a call the next one is looked at
NextGaps == {50, 300, 700}

\* C4: when the trigger throws, playDigit returns normally and leaves the
\* state the successful trigger would have left, so that the next call,
\* at least 50 ms later, is processed as after a successful trigger.
C4_FailedTriggerLeavesNoTrace ==
  (out.op = "playDigit" /\ out.threw) =>
     /\ ~out.raised
     /\ lastTriggerTime = out.ifOk.last
     /\ currentTheme = out.ifOk.theme
     /\ \A v \in MelodyVoices, gap \in NextGaps, n \in {1, 3} :
          NextNoteCall(volume[v], n, out.at + gap)
            = NextNoteCall(out.ifOk.volume[v], n, out.at + gap)

\* C5: digitToScaleDegree(d) is d - 2 for d in 2..9 and null otherwise, and
\* digitToChordNotes is empty for a digit outside 2..9, whatever the key,
\* mode and chord setting.
C5_DegreeOfDigit ==
  /\ out.op = "digitToScaleDegree" =>
       out.result = (IF out.digit \in NoteDigits THEN {out.digit - 2} ELSE {})
  /\ (out.op = "digitToChordNotes" /\ out.digit \notin NoteDigits) =>
       out.result = <<>>

\* digit 1 looked up under F# locrian, extended chords
C5_Witness ==
  /\ out.op = "digitToChordNotes" /\ out.digit = 1 /\ out.result = <<>>
  /\ currentKey = "F#" /\ currentMode = "locrian" /\ currentChord = "Extended Chords"

\* C6: an accepted note digit is triggered on the dark melody synth if the
\* most recently accepted percussion digit was '0' or there was none, and
\* on the light melody synth if it was '1'.
C6_VoiceFollowsPercussion ==
  (AcceptedCall /\ out.digit \in NoteChars) =>
     out.voice = (IF hist.perc = "1" THEN "light" ELSE "dark")

\* C7: the resolved scale has 8 notes, the i-th being the chromatic table's
\* name at index (rootIndex + offset_i) mod 12; the first is the key and the
\* eighth is the first again.
C7_ChromaticScale ==
  out.op = "getCurrentScaleNotes" =>
     /\ Len(out.result) = 8
     /\ \A i \in 1..8 :
          out.result[i]
            = chromatic[((IndexOf(currentKey) + MODES[currentMode][i]) % 12) + 1]
     /\ out.result[1] = currentKey
     /\ out.result[8] = out.result[1]

\* the number of notes of a chord setting
NotesOf(chord) ==
  CASE chord \in SingleNames -> 1
    [] chord \in TriadNames -> 3
    [] chord \in SeventhNames -> 4
    [] chord \in ExtendedNames -> 5

\* C8: for a note digit, digitToChordNotes returns 1, 3, 4, 5 notes under
\* the single, triad, seventh, extended settings, the first of them being
\* the one note the single-note setting returns for the digit and octave.
C8_ChordSizeAndRoot ==
  (ChordLookup
   /\ currentChord \in SingleNames \cup TriadNames \cup SeventhNames \cup ExtendedNames) =>
     /\ Len(out.result) = NotesOf(currentChord)
     /\ <<out.result[1]>> =
          digitToChordNotes(currentKey, currentMode, "none", out.digit, out.octave)

\* digit 9 (degree 7) under the extended setting
C8_Witness ==
  /\ ChordLookup /\ out.digit = 9 /\ currentChord = "extended"
  /\ Len(out.result) = 5

\* C9: under the triad, seventh and extended settings the third is the scale
\* note (degree + 2) mod 7, at octave + 1 exactly when degree + 2 >= 7.
C9_ThirdOctave ==
  (ChordLookup /\ currentChord \in TriadNames \cup SeventhNames \cup ExtendedNames) =>
     out.result[2] =
       Pitched(At(getCurrentScaleNotes(currentKey, currentMode),
                  ((out.digit - 2) + 2) % 7),
               out.octave + (IF (out.digit - 2) + 2 >= 7 THEN 1 ELSE 0))

\* the octave of a chord tone `interval` scale steps above the degree
WrapOctave(degree, interval, octave) ==
  octave + (IF degree + interval >= 7 THEN 1 ELSE 0)

\* the scale note `interval` steps above the degree, in the 7-note cycle
ScaleTone(degree, interval) ==
  At(getCurrentScaleNotes(currentKey, currentMode), (degree + interval) % 7)

CIonianLookup ==
  /\ out.op = "digitToChordNotes" /\ out.octave = 4
  /\ currentKey = "C" /\ currentMode = "ionian"

\* C11: with key C, mode ionian, the triad setting and octave 4, digits 2, 3
\* and 4 resolve to [C4, E4, G4], [D4, F4, A4] and [E4, G4, B4]; with the
\* single-note setting digit 2 resolves to [C4].
C11_CMajorExamples ==
  CIonianLookup =>
     /\ (currentChord \in TriadNames /\ out.digit = 2) => out.result = <<"C4", "E4", "G4">>
     /\ (currentChord \in TriadNames /\ out.digit = 3) => out.result = <<"D4", "F4", "A4">>
     /\ (currentChord \in TriadNames /\ out.digit = 4) => out.result = <<"E4", "G4", "B4">>
     /\ (currentChord \in SingleNames /\ out.digit = 2) => out.result = <<"C4">>

\* digit 4 looked up under C ionian, triads, octave 4
C11_Witness ==
  /\ CIonianLookup /\ currentChord = "triads" /\ out.digit = 4
  /\ out.result = <<"E4", "G4", "B4">>

\* every pitched note text the lookups can return, with its parts
PitchedNames ==
  { [text |-> Pitched(n.name, o), letter |-> n.letter, acc |-> n.acc, octave |-> o] :
      n \in TonalNames, o \in 2..6 }

\* the chromatic index (0..11) of a note name: the semitone of its letter
\* moved by its accidentals
ChromaticIndex(letter, acc) == (LetterSemis[letter + 1] + acc + 12) % 12

\* pitch = 12 * octave + chromatic index of the note name
PitchOf(text) ==
  LET p == CHOOSE p \in PitchedNames : p.text = text
  IN  12 * p.octave + ChromaticIndex(p.letter, p.acc)

KnownDensities == SingleNames \cup TriadNames \cup SeventhNames \cup ExtendedNames

\* C12: for every key, mode, degree 0..7 and chord setting, the notes that
\* digitToChordNotes returns are in strictly ascending pitch order.
C12_AscendingPitch ==
  (ChordLookup /\ currentChord \in KnownDensities) =>
     \A i \in 1..(Len(out.result) - 1) :
        PitchOf(out.result[i]) < PitchOf(out.result[i + 1])

\* C13: under the single-note setting at base octave o, digit 2 resolves to
\* the key's name at octave o and digit 9 to the same name at octave o + 1.
C13_OctaveDigit ==
  (ChordLookup /\ currentChord \in SingleNames) =>
     /\ out.digit = 2 => out.result = << Pitched(currentKey, out.octave) >>
     /\ out.digit = 9 => out.result = << Pitched(currentKey, out.octave + 1) >>

\* the last operation was calculatePolyphonicVolume
VolumeCall == out.op = "calculatePolyphonicVolume"

\* C14: calculatePolyphonicVolume(base, N) is base for N = 1; with the base
\* of -6 dB it is -6, -9, -12, -15 dB for N = 1, 2, 4, 8; and for every
\* N > 1 and every base it lies within [-30, 0] dB.
C14_PolyphonicVolume ==
  VolumeCall =>
     /\ out.noteCount = 1 => out.result = out.base
     /\ (out.base = baseVolume /\ out.noteCount = 1) => out.result = -6000
     /\ (out.base = baseVolume /\ out.noteCount = 2) => out.result = -9000
     /\ (out.base = baseVolume /\ out.noteCount = 4) => out.result = -12000
     /\ (out.base = baseVolume /\ out.noteCount = 8) => out.result = -15000
     /\ out.noteCount > 1 => (out.result >= -30000 /\ out.result <= 0)

\* a base of -28 dB with 4 notes: -34 dB, held at the floor of -30 dB
C14_Witness ==
  VolumeCall /\ out.base = -28000 /\ out.noteCount = 4 /\ out.result = -30000

\* C15: once the restore ramp of the last note trigger on a melody synth has
\* completed, with no further trigger, the synth's volume is back at the
\* base level of -6 dB, however the triggers before were spaced.
C15_CompensationRestored ==
  \A v \in MelodyVoices :
     volume[v].restore = <<>> => volume[v].level = baseVolume

C17_ThemeSingleWriter ==
  [][ currentTheme' # currentTheme =>
        (out'.op = "playDigit" /\ out'.accepted /\ out'.digit \in {"0", "1"}) ]_vars

\* C18: setKey with a value outside the 12 keys and setMode with a value
\* outside the 8 modes fail with an error that names the value and leave the
\* key and the mode as they were; so the key is always one of the 12 keys
\* and the mode one of the 8 modes.
C18_InvalidKeyModeRejected ==
  [][ /\ (out'.op = "setKey" /\ out'.arg \notin validKeys) =>
           /\ out'.threw /\ out'.error = "Invalid key: " \o out'.arg
           /\ currentKey' = currentKey
      /\ (out'.op = "setMode" /\ out'.arg \notin ModeType) =>
           /\ out'.threw /\ out'.error = "Invalid mode: " \o out'.arg
           /\ currentMode' = currentMode
      /\ currentKey' \in validKeys
      /\ currentMode' \in ModeType ]_vars

\* C19: the chord setting's mutator rejects, with an error, a value that is
\* not one of the defined chord settings, and the setting in force before
\* stays in force.
C19_InvalidChordRejected ==
  [][ /\ (out'.op \in {"setChord", "setMusicalChord"}
          /\ out'.arg \notin KnownDensities) =>
           /\ out'.threw
           /\ currentChord' = currentChord
      /\ currentChord' \in KnownDensities ]_vars

C21_ConfigErrorReachesCaller ==
  [][ /\ (out'.op = "setMusicalKey" /\ out'.arg \notin validKeys) =>
           (out'.raised /\ currentKey' = currentKey)
      /\ (out'.op = "setMusicalMode" /\ out'.arg \notin ModeType) =>
           (out'.raised /\ currentMode' = currentMode) ]_vars

\* C22: the decimal point triggers nothing and leaves the theme alone: the
\* playback timer does not hand it to playDigit, and playDigit('.') reaches
\* no synth, passes no notes and keeps the engine's theme.
C22_DecimalPointIsSilent ==
  /\ ~TimerDispatches(".")
  /\ [][ (out'.op = "playDigit" /\ out'.digit \notin NoteChars \cup {"0", "1"}) =>
            /\ out'.voice = "none"
            /\ out'.notes = <<>>
            /\ currentTheme' = currentTheme ]_vars

C22_Witness ==
  /\ out.op = "playDigit"
  /\ out.digit = "."
  /\ out.accepted
  /\ out.voice = "none"
  /\ currentTheme = "light"

\* C23: a tick of the playback timer moves the index forward by exactly one
\* and hands the character at the new index to playDigit; nothing else moves
\* the index (not a pause, a resume, a tempo change or a key), and while
\* playback is paused no tick runs: no position is skipped or replayed.
C23_TimelineInOrder ==
  [][ /\ (out'.op = "timerTick" /\ ~out'.stopped) =>
           /\ isPlaying
           /\ currentDigitIndex' = currentDigitIndex + 1
           /\ out'.index = currentDigitIndex'
           /\ out'.char = At(piDigits, currentDigitIndex')
           /\ out'.called
      /\ (out'.op # "timerTick" \/ out'.stopped) =>
           currentDigitIndex' = currentDigitIndex
      /\ ~isPlaying => (currentDigitIndex' = currentDigitIndex /\ out'.op # "timerTick")
    ]_vars

\* playback resumed at index 3 after a pause and a tempo change
C23_Witness ==
  /\ out.op = "keySpace"
  /\ isPlaying
  /\ currentDigitIndex = 3
  /\ tempo = 600

\* C24: when the audio start fails, initialize() still resolves and raises
\* nothing, so playback starts; and while the engine is not initialized
\* every tick before the end of the buffer still advances the index by one,
\* with a playDigit call that triggers nothing and changes nothing.
C24_PlaybackWithoutAudio ==
  [][ /\ (out'.op = "startSettles" /\ ~out'.ok) =>
           /\ ~out'.raised
           /\ (out'.then = "play" /\ mounted = "mounted") => isPlaying'
      /\ (out'.op = "timerTick" /\ ~initialized
            /\ currentDigitIndex < Len(piDigits) - 1) =>
           /\ ~out'.stopped
           /\ currentDigitIndex' = currentDigitIndex + 1
           /\ out'.called /\ ~out'.accepted /\ out'.voice = "none"
           /\ lastTriggerTime' = lastTriggerTime
           /\ currentTheme' = currentTheme
    ]_vars

\* the audio never started, and the timeline has advanced to the fourth digit
C24_Witness ==
  /\ out.op = "timerTick"
  /\ ~initialized
  /\ synths = "created"
  /\ isPlaying
  /\ currentDigitIndex = 5
  /\ lastTriggerTime = 0

\* C25: whenever initialized is true, the synths have been created and have
\* not been disposed.
C25_InitializedHasLiveSynths ==
  initialized => synths = "created"

\* C26: initialize() constructs the synths and the reverb graph only when the
\* engine holds no constructed, undisposed set of them: at most once until
\* dispose(), whatever the interleaving of the calls.
C26_ConstructedOnce ==
  [][ (out'.op = "initialize" /\ out'.constructed) => synths # "created" ]_vars

\* C27: after every digit event that reached playDigit on an initialized
\* engine that has played before (a tick of the timer on a digit, a digit
\* key, the deferred call of a digit key), the theme the App displays is the
\* engine's current theme.
C27_ThemesAgree ==
  (/\ out.op \in {"timerTick", "keyDigit", "startSettles"}
   /\ out.called
   /\ initialized
   /\ lastTriggerTime > 0)
    => appTheme = currentTheme

\* C28: after every accepted playDigit call that ramped a melody synth to a
\* compensated level, that synth has a ramp back scheduled, to the level read
\* before the call, whether or not the trigger threw.
C28_RampBackScheduled ==
  (out.op = "playDigit" /\ out.accepted /\ out.voice \in MelodyVoices
     /\ synths = "created") =>
    /\ volume[out.voice].restore # <<>>
    /\ volume[out.voice] = out.ifOk.volume[out.voice]

\* C29: the playDigit call that follows the completion of an initialize(),
\* the first one of the engine or one after a dispose(), is not dropped by
\* the throttle, whatever the audio clock reads.
C29_FirstCallNotThrottled ==
  [][ (out.op = "initializeResume" /\ out.ok /\ initialized
         /\ out'.op = "playDigit") => out'.accepted ]_vars

\* C30: played from the start without a pause, the buffer grows by 50 digits
\* each time a tick brings the index within 10 positions of its end while it
\* is shorter than 500 characters, and never beyond 502; playback stops
\* itself only on the tick that finds the index at 501 in the buffer of 502,
\* that tick and any later one dispatch nothing, and playback that has
\* started does come to that stop.
C30_BufferPlaysToCap ==
  /\ [][ (out'.op = "timerTick" /\ ~out'.stopped) =>
           Len(piDigits') =
             IF currentDigitIndex' >= Len(piDigits) - 10 /\ Len(piDigits) < 500
             THEN Len(piDigits) + 50 ELSE Len(piDigits) ]_vars
  /\ [](Len(piDigits) <= 502)
  /\ [][ (isPlaying /\ ~isPlaying') =>
           /\ Len(piDigits) = 502
           /\ currentDigitIndex = 501 /\ currentDigitIndex' = 501
           /\ out'.op = "timerTick" /\ ~out'.called ]_vars
  /\ [][ (currentDigitIndex = 501 /\ out'.op = "timerTick") => ~out'.called ]_vars
  /\ (isPlaying ~> (~isPlaying /\ currentDigitIndex = 501 /\ Len(piDigits) = 502))

\* playback has stopped itself at the last index of the full buffer
C30_Witness ==
  /\ out.op = "timerTick"
  /\ out.stopped
  /\ ~isPlaying
  /\ initialized
  /\ currentDigitIndex = 501
  /\ Len(piDigits) = 502
  /\ position = 500

=============================================================================
